---- MODULE Spec2Model ----
(***************************************************************************)
(* A model of the mutual-fund SIP tracker's core: the identity resolver    *)
(* and the price-history cache of NavFetcher (src/nav_fetcher.py) and the  *)
(* transaction extractor DataProcessor (src/data_processor.py).            *)
(*                                                                         *)
(* Three specifications share the module, one per component:               *)
(*   SpecResolver   NavFetcher.__init__ / get_scheme_code                  *)
(*   SpecCache      NavFetcher.__init__ / fetch_historical_nav, the clock  *)
(*   SpecExtractor  DataProcessor.__init__ / load_data                     *)
(*                                                                         *)
(* Environment assumptions, stated once:                                   *)
(*  - one NavFetcher is alive at a time (spec.md section 5: no concurrent  *)
(*    writers); a new one replaces the old one (Construct);                *)
(*  - save_mappings completes: it dumps a str -> str dict, which cannot    *)
(*    fail to serialise; save_cache may complete or fail after             *)
(*    open(..., 'w') truncated the file (SaveOutcomes);                    *)
(*  - the similarity score of fuzzywuzzy is a fixed function of the two    *)
(*    names (Score), given here as a table over the model's names.         *)
(***************************************************************************)
EXTENDS Integers, Sequences, FiniteSets, TLC

VARIABLES
    scheme_codes,   \* NavFetcher.scheme_codes: ordered dict, a sequence of <<code, name>>
    mappings,       \* NavFetcher.mappings: source name -> code (NoKey: not a key)
    mapping_file,   \* scheme_mapping.json: [exists, content]
    rlast,          \* history: the live instance's latest get_scheme_code call
    rprev,          \* history: the call before rlast
    today,          \* datetime.date.today(), as a day number
    cache,          \* NavFetcher.cache: code -> entry
    cache_file,     \* nav_cache.json: [state, content]
    glast,          \* history: the live instance's latest fetch_historical_nav call
    gprev,          \* history: the call before glast
    file_path,      \* DataProcessor.file_path: the workbook it names
    transactions,   \* DataProcessor.transactions
    load_result     \* history: what the latest load_data returned

vars == <<scheme_codes, mappings, mapping_file, rlast, rprev,
          today, cache, cache_file, glast, gprev,
          file_path, transactions, load_result>>

resolverVars  == <<scheme_codes, mappings, mapping_file, rlast, rprev>>
cacheVars     == <<today, cache, cache_file, glast, gprev>>
extractorVars == <<file_path, transactions, load_result>>

-----------------------------------------------------------------------------
(* Bounds of the model *)

MaxDay     == 1     \* the clock runs over days 0 .. MaxDay
MaxRows    == 2     \* data rows of the statement sheet

-----------------------------------------------------------------------------
(* The identity resolver *)

SourceNames  == {"sA", "sB"}            \* scheme names as statements spell them
CatalogNames == {"nX", "nY", "nZ"}      \* names in the AMFI catalog
Codes        == {"c1", "c2"}            \* AMFI scheme codes

NoKey     == "absent"       \* the key is not in the dict
NotFound  == "None"         \* get_scheme_code returned None
TypeError == "TypeError"    \* get_scheme_code ended with an unhandled exception

EmptyMappings == [n \in SourceNames |-> NoKey]

\* fuzzywuzzy's similarity of a statement name and a catalog name, in 0..100.
Score(query, choice) ==
    CASE query = "sA" /\ choice = "nX" -> 81
      [] query = "sA" /\ choice = "nY" -> 81
      [] query = "sA" /\ choice = "nZ" -> 30
      [] query = "sB" /\ choice = "nX" -> 80
      [] query = "sB" /\ choice = "nY" -> 45
      [] query = "sB" /\ choice = "nZ" -> 90

\* mf.get_scheme_codes(): any catalog over the model's codes and names, the
\* empty one included, in any order; several codes may share one name.
AllCatalogs ==
    UNION { { s \in [1..n -> Codes \X CatalogNames] :
                \A i, j \in 1..n : s[i][1] = s[j][1] => i = j } :
            n \in 0..Cardinality(Codes) }

\* self.scheme_names = list(self.scheme_codes.values())
SchemeNames(codes) == [i \in 1..Len(codes) |-> codes[i][2]]

\* process.extractOne(query, choices): None (here <<>>) on no choices, else the
\* first choice of maximal score with its score.
ExtractOne(query, choices) ==
    IF Len(choices) = 0 THEN <<>>
    ELSE LET best == CHOOSE i \in 1..Len(choices) :
                        /\ \A j \in 1..Len(choices) :
                              Score(query, choices[j]) <= Score(query, choices[i])
                        /\ \A j \in 1..(i-1) :
                              Score(query, choices[j]) < Score(query, choices[i])
         IN <<choices[best], Score(query, choices[best])>>

\* if score > 80
AcceptAtThreshold(score) == score >= 80
Accept(score) == score > 80

\* for code, name in self.scheme_codes.items(): if name == best_match: ... return code
CodeForName(codes, best_match) ==
    LET hits == {i \in 1..Len(codes) : codes[i][2] = best_match}
    IN IF hits = {} THEN NotFound
       ELSE codes[CHOOSE i \in hits : \A j \in hits : i <= j][1]

\* if scheme_name in self.mappings
NeverInMappings(m, scheme_name) == FALSE
InMappings(m, scheme_name) == m[scheme_name] # NoKey

\* load_mappings: the file's content, {} when there is no file
LoadNothing(f) == EmptyMappings
LoadMappings(f) == IF f.exists THEN f.content ELSE EmptyMappings

\* save_mappings: the whole dict replaces the file
SaveMappings(m) == [exists |-> TRUE, content |-> m]

NoResolve ==
    [op |-> "none", name |-> "", hit |-> FALSE, matched |-> FALSE, score |-> -1,
     best |-> "", result |-> NotFound,
     before |-> EmptyMappings, fileBefore |-> [exists |-> FALSE, content |-> EmptyMappings]]

\* get_scheme_code(scheme_name), the whole call
GetSchemeCode(scheme_name) ==
    LET call == [op |-> "resolve", name |-> scheme_name, hit |-> FALSE,
                 matched |-> FALSE, score |-> -1, best |-> "", result |-> NotFound,
                 before |-> mappings, fileBefore |-> mapping_file]
        m    == ExtractOne(scheme_name, SchemeNames(scheme_codes))
    IN
    /\ rprev' = rlast
    /\ IF InMappings(mappings, scheme_name)
       THEN /\ rlast' = [call EXCEPT !.hit = TRUE, !.result = mappings[scheme_name]]
            /\ UNCHANGED <<mappings, mapping_file>>
       ELSE IF Len(m) = 0
       THEN \* best_match, score = None raises TypeError, which nothing catches
            /\ rlast' = [call EXCEPT !.matched = TRUE, !.result = TypeError]
            /\ UNCHANGED <<mappings, mapping_file>>
       ELSE LET code == CodeForName(scheme_codes, m[1])
            IN IF Accept(m[2]) /\ code # NotFound
               THEN /\ mappings' = [mappings EXCEPT ![scheme_name] = code]
                    /\ mapping_file' = SaveMappings(mappings')
                    /\ rlast' = [call EXCEPT !.matched = TRUE, !.score = m[2],
                                             !.best = m[1], !.result = code]
               ELSE /\ rlast' = [call EXCEPT !.matched = TRUE, !.score = m[2],
                                             !.best = m[1]]
                    /\ UNCHANGED <<mappings, mapping_file>>
    /\ UNCHANGED scheme_codes

-----------------------------------------------------------------------------
(* The price-history cache *)

NoCode == ""                \* a falsy scheme_code (None or '')

\* Points as mf.get_scheme_historical_nav hands them back: the date as
\* day-month-year text <<dd, mm, yyyy>>, the NAV as text.
Jan5     == [date |-> <<5, 1, 2024>>,  nav |-> "10"]
Feb1     == [date |-> <<1, 2, 2024>>,  nav |-> "11"]
Jan5Bis  == [date |-> <<5, 1, 2024>>,  nav |-> "12"]    \* Jan5's date once more
BadMonth == [date |-> <<5, 13, 2024>>, nav |-> "10"]    \* no such month
BadNav   == [date |-> <<1, 2, 2024>>,  nav |-> "x"]     \* not a number

\* The provider's answers: it raises, returns None, returns a dict without
\* 'data', or returns a dict whose 'data' is a list of points: empty, one
\* point, two points latest first, one date twice, an unparsable date, an
\* unparsable NAV after a good row.
Responses ==
    { [kind |-> k, data |-> <<>>] : k \in {"raise", "none", "nodata"} }
      \cup { [kind |-> "data", data |-> s] :
               s \in { <<>>, <<Jan5>>, <<Feb1, Jan5>>, <<Jan5, Jan5Bis>>,
                       <<BadMonth>>, <<Jan5, BadNav>> } }

\* How save_cache ends: it completes, or it fails after open(..., 'w')
\* truncated the file.
SaveOutcomes == {"ok", "partial"}

NoEntry    == [present |-> FALSE, last_updated |-> 0, data |-> <<>>]
EmptyCache == [c \in Codes |-> NoEntry]

IsLeap(y) == (y % 4 = 0 /\ y % 100 # 0) \/ y % 400 = 0
DaysIn(m, y) ==
    IF m = 2 THEN (IF IsLeap(y) THEN 29 ELSE 28)
    ELSE IF m \in {4, 6, 9, 11} THEN 30 ELSE 31

\* A Timestamp, as a number that orders like the calendar.
Ordinal(y, m, d) == (y * 12 + (m - 1)) * 31 + (d - 1)

\* pd.to_datetime(text, format='%d-%m-%Y') succeeds
AnyDMY(t) == TRUE
ValidDMY(t) == t[2] \in 1..12 /\ t[1] \in 1..DaysIn(t[2], t[3])

\* pd.to_datetime(df['date'], format='%d-%m-%Y')
ParseDMY(t) == Ordinal(t[3], t[2], t[1])

\* .dt.strftime('%Y-%m-%d'): ISO text <<yyyy, mm, dd>>
Strftime(ts) == << ts \div 372, ((ts % 372) \div 31) + 1, (ts % 31) + 1 >>

\* pd.to_datetime(df['date']) of ISO text
ParseISO(t) == Ordinal(t[1], t[2], t[3])

\* pd.to_numeric(df['nav']) succeeds / its value
NumericText(s) == s \in {"10", "11", "12"}
ToNumeric(s) == CASE s = "10" -> 10 [] s = "11" -> 11 [] s = "12" -> 12

\* Lines 88-95 build a frame without raising and without falling through:
\* the provider returned, the answer is truthy and has 'data', the list has
\* rows (else df['date'] is a KeyError), every date and NAV parses.
Parses(resp) ==
    /\ resp.kind = "data"
    /\ Len(resp.data) > 0
    /\ \A i \in 1..Len(resp.data) :
          ValidDMY(resp.data[i].date) /\ NumericText(resp.data[i].nav)

\* df after lines 93-95
Frame(raw) ==
    [i \in 1..Len(raw) |-> [date |-> ParseDMY(raw[i].date), nav |-> ToNumeric(raw[i].nav)]]

IsSorted(df) == \A i, j \in 1..Len(df) : i < j => df[i].date <= df[j].date

\* df.sort_values('date'): the rows in ascending date order; the default sort
\* is not stable, so rows of equal date may come out in either order.
SortValues(df) ==
    LET n == Len(df)
        perms == {p \in [1..n -> 1..n] : \A i, j \in 1..n : p[i] = p[j] => i = j}
    IN { t \in {[i \in 1..n |-> df[p[i]]] : p \in perms} : IsSorted(t) }

\* cache_data: the frame with its dates as ISO text, as records
CacheData(df) == [i \in 1..Len(df) |-> [date |-> Strftime(df[i].date), nav |-> df[i].nav]]

\* lines 80-85: the frame rebuilt from a cached entry
FrameFromCache(data) ==
    [i \in 1..Len(data) |-> [date |-> ParseISO(data[i].date), nav |-> data[i].nav]]

\* lines 76-79: the entry exists and was updated today
NeverFresh(entry, day) == FALSE
FreshAnyDay(entry, day) == entry.present
IsFresh(entry, day) == entry.present /\ entry.last_updated = day

\* load_cache: the file's content; {} when absent or unreadable
LoadCache(f) == IF f.state = "ok" THEN f.content ELSE EmptyCache

\* save_cache: open(..., 'w') truncates the file, json.dump then writes the
\* whole dict. It completes, or it fails after the truncation and leaves text
\* that is not JSON.
SaveCache(c, outcome) ==
    CASE outcome = "ok"      -> [state |-> "ok", content |-> c]
      [] outcome = "partial" -> [state |-> "corrupt", content |-> EmptyCache]

NoGet ==
    [op |-> "none", id |-> NoCode, day |-> 0, called |-> FALSE, parsed |-> FALSE,
     isNone |-> TRUE, result |-> <<>>]

\* What the history keeps of the call before the latest
Summary(g) == [op |-> g.op, id |-> g.id, day |-> g.day, called |-> g.called,
               parsed |-> g.parsed]

\* fetch_historical_nav(scheme_code), the whole call; resp is what the
\* provider answers if asked, save how save_cache ends if reached.
FetchHistoricalNav(scheme_code, resp, save) ==
    LET call == [op |-> "get", id |-> scheme_code, day |-> today, called |-> FALSE,
                 parsed |-> FALSE, isNone |-> TRUE, result |-> <<>>]
    IN
    /\ gprev' = Summary(glast)
    /\ UNCHANGED today
    /\ IF scheme_code = NoCode
       THEN /\ glast' = call
            /\ UNCHANGED <<cache, cache_file>>
       ELSE IF IsFresh(cache[scheme_code], today)
       THEN /\ glast' = [call EXCEPT !.isNone = FALSE,
                                     !.result = FrameFromCache(cache[scheme_code].data)]
            /\ UNCHANGED <<cache, cache_file>>
       ELSE IF ~Parses(resp)
       THEN \* the except clause, or the fall-through to line 113
            /\ glast' = [call EXCEPT !.called = TRUE]
            /\ UNCHANGED <<cache, cache_file>>
       ELSE \E df \in SortValues(Frame(resp.data)) :
            /\ cache' = [cache EXCEPT ![scheme_code] =
                            [present |-> TRUE, last_updated |-> today,
                             data |-> CacheData(df)]]
            /\ cache_file' = SaveCache(cache', save)
            /\ glast' = [call EXCEPT !.called = TRUE, !.parsed = TRUE,
                                     !.isNone = (save # "ok"),
                                     !.result = IF save = "ok" THEN df ELSE <<>>]

\* datetime.date.today() moves on to the next day
Tick ==
    /\ today < MaxDay
    /\ today' = today + 1
    /\ UNCHANGED <<cache, cache_file, glast, gprev>>

-----------------------------------------------------------------------------
(* The transaction extractor *)

\* required_cols
RequiredCols == {"Scheme Name", "Date", "NAV", "Units", "Amount", "Transaction Description"}

NaN == "NaN"                \* an empty cell

\* Rows of the 'Transaction Details' sheet as read_excel hands them over:
\* Date as year-month-day text <<yyyy, mm, dd>>, the numbers as text.
GoodRow     == [scheme |-> "Fund X", date |-> <<2024, 1, 5>>,  nav |-> "10",
                units |-> "50",  amount |-> "500"]
BadUnitsRow == [scheme |-> "Fund X", date |-> <<2024, 2, 5>>,  nav |-> "10",
                units |-> "bad", amount |-> "500"]
FooterRow   == [scheme |-> NaN,      date |-> <<2024, 1, 5>>,  nav |-> "10",
                units |-> "50",  amount |-> "500"]
BadDateRow  == [scheme |-> "Fund Y", date |-> <<2024, 13, 5>>, nav |-> "10",
                units |-> "50",  amount |-> "500"]
RawRows     == {GoodRow, BadUnitsRow, FooterRow, BadDateRow}

\* Column labels as the sheet spells them: a name, padded with spaces or not.
Labels(names, padded) == { [name |-> n, padded |-> (n \in padded)] : n \in names }

Headers ==
    { Labels(RequiredCols, {}),
      Labels(RequiredCols, {"Date", "Scheme Name"}),
      Labels(RequiredCols \ {"Scheme Name"}, {}),
      Labels(RequiredCols \ {"Date"}, {}) }

\* The workbooks a DataProcessor may be pointed at
Workbooks ==
    { [hasSheet |-> h, header |-> l, rows |-> r] :
        h \in BOOLEAN, l \in Headers,
        r \in UNION { [1..k -> RawRows] : k \in 0..MaxRows } }

NoWorkbook == [hasSheet |-> FALSE, header |-> {}, rows |-> <<>>]

\* c.strip()
Strip(label) == label.name

\* df.columns after the rename of line 25
Columns(header) == { Strip(l) : l \in header }

\* pd.to_datetime(cell, errors='coerce') is not NaT
ValidYMD(t) == t[2] \in 1..12 /\ t[3] \in 1..DaysIn(t[2], t[1])

\* pd.to_numeric(cell, errors='coerce').fillna(0)
CoerceNumeric(s) ==
    CASE s = "10" -> 10 [] s = "50" -> 50 [] s = "500" -> 500 [] OTHER -> 0

\* df.dropna(subset=['Scheme Name'])
HasScheme(row) == row.scheme # NaN
\* df.dropna(subset=['Date']) after the conversion of line 35
HasDate(row) == ValidYMD(row.date)

\* lines 32-41: the rows that survive, converted
Normalise(rows) ==
    LET kept == SelectSeq(SelectSeq(rows, HasScheme), HasDate)
    IN [i \in 1..Len(kept) |->
          [scheme |-> kept[i].scheme,
           date   |-> ParseISO(kept[i].date),
           nav    |-> CoerceNumeric(kept[i].nav),
           units  |-> CoerceNumeric(kept[i].units),
           amount |-> CoerceNumeric(kept[i].amount)]]

\* Something in the try block raises: read_excel finds no such sheet, or
\* 'Scheme Name' or 'Date' is not among the columns (KeyError)
LoadRaises(wb) ==
    \/ ~wb.hasSheet
    \/ "Scheme Name" \notin Columns(wb.header)
    \/ "Date" \notin Columns(wb.header)

None == [isNone |-> TRUE, rows |-> <<>>]
DataFrame(rows) == [isNone |-> FALSE, rows |-> rows]

\* DataProcessor(file_path)
NewProcessor(wb) ==
    /\ file_path' = wb
    /\ transactions' = None
    /\ load_result' = [called |-> FALSE, value |-> None]

\* load_data(), the whole call
LoadData ==
    /\ IF LoadRaises(file_path)
       THEN /\ load_result' = [called |-> TRUE, value |-> None]
            /\ UNCHANGED transactions
       ELSE /\ transactions' = DataFrame(Normalise(file_path.rows))
            /\ load_result' = [called |-> TRUE, value |-> transactions']
    /\ UNCHANGED file_path

-----------------------------------------------------------------------------
(* NavFetcher.__init__: a new instance replaces the live one *)

Construct(catalog) ==
    /\ scheme_codes' = catalog
    /\ mappings' = LoadMappings(mapping_file)
    /\ cache' = LoadCache(cache_file)
    /\ rlast' = NoResolve
    /\ rprev' = NoResolve
    /\ glast' = NoGet
    /\ gprev' = Summary(NoGet)
    /\ UNCHANGED <<mapping_file, cache_file, today>>

-----------------------------------------------------------------------------
(* Specifications *)

\* scheme_mapping.json as an earlier run may have left it
InitMappingFiles ==
    { [exists |-> FALSE, content |-> EmptyMappings],
      [exists |-> TRUE,  content |-> EmptyMappings],
      [exists |-> TRUE,  content |-> [EmptyMappings EXCEPT !["sA"] = "c2"]] }

\* nav_cache.json as an earlier run may have left it
InitCacheFiles ==
    { [state |-> "absent", content |-> EmptyCache],
      [state |-> "ok", content |->
          [EmptyCache EXCEPT !["c1"] =
              [present |-> TRUE, last_updated |-> 0,
               data |-> << [date |-> <<2024, 1, 5>>, nav |-> 10] >>]]] }

InitExtractorIdle ==
    /\ file_path = NoWorkbook
    /\ transactions = None
    /\ load_result = [called |-> FALSE, value |-> None]

InitResolverIdle ==
    /\ scheme_codes = <<>>
    /\ mapping_file = [exists |-> FALSE, content |-> EmptyMappings]
    /\ mappings = EmptyMappings
    /\ rlast = NoResolve
    /\ rprev = NoResolve

InitCacheIdle ==
    /\ today = 0
    /\ cache_file = [state |-> "absent", content |-> EmptyCache]
    /\ cache = EmptyCache
    /\ glast = NoGet
    /\ gprev = Summary(NoGet)

InitResolver ==
    /\ scheme_codes \in AllCatalogs
    /\ mapping_file \in InitMappingFiles
    /\ mappings = LoadMappings(mapping_file)
    /\ rlast = NoResolve
    /\ rprev = NoResolve
    /\ InitCacheIdle
    /\ InitExtractorIdle

NextResolver ==
    \/ \E catalog \in AllCatalogs : Construct(catalog) /\ UNCHANGED extractorVars
    \/ \E scheme_name \in SourceNames :
          GetSchemeCode(scheme_name) /\ UNCHANGED cacheVars /\ UNCHANGED extractorVars

SpecResolver == InitResolver /\ [][NextResolver]_vars

InitCache ==
    /\ today = 0
    /\ cache_file \in InitCacheFiles
    /\ cache = LoadCache(cache_file)
    /\ glast = NoGet
    /\ gprev = Summary(NoGet)
    /\ InitResolverIdle
    /\ InitExtractorIdle

NextCache ==
    \/ Construct(scheme_codes) /\ UNCHANGED extractorVars
    \/ \E scheme_code \in Codes \cup {NoCode}, resp \in Responses, save \in SaveOutcomes :
          FetchHistoricalNav(scheme_code, resp, save)
            /\ UNCHANGED resolverVars /\ UNCHANGED extractorVars
    \/ Tick /\ UNCHANGED resolverVars /\ UNCHANGED extractorVars

SpecCache == InitCache /\ [][NextCache]_vars

InitExtractor ==
    /\ file_path \in Workbooks
    /\ transactions = None
    /\ load_result = [called |-> FALSE, value |-> None]
    /\ InitResolverIdle
    /\ InitCacheIdle

NextExtractor ==
    \/ \E wb \in Workbooks :
          NewProcessor(wb) /\ UNCHANGED resolverVars /\ UNCHANGED cacheVars
    \/ LoadData /\ UNCHANGED resolverVars /\ UNCHANGED cacheVars

SpecExtractor == InitExtractor /\ [][NextExtractor]_vars

-----------------------------------------------------------------------------
(* Properties of the identity resolver, under SpecResolver *)

\* The latest two calls are get_scheme_code calls of the live instance with
\* one source name.
SameNameTwice ==
    /\ rlast.op = "resolve"
    /\ rprev.op = "resolve"
    /\ rlast.name = rprev.name

\* The latest call left the mapping store as it found it, in memory and on disk.
StoreUntouched ==
    /\ mappings = rlast.before
    /\ mapping_file = rlast.fileBefore

\* The highest score of any catalog name against the query.
MaxScore(query, codes) ==
    CHOOSE v \in {Score(query, codes[i][2]) : i \in 1..Len(codes)} :
        \A i \in 1..Len(codes) : Score(query, codes[i][2]) <= v

\* C3 as amended: two calls in a row with one source name return the same
\* result, and the second leaves the mapping store unchanged; the second does
\* no approximate matching when the first returned a code, and repeats the
\* matching when the first returned None.
C3_ResolveTwice ==
    SameNameTwice =>
        /\ rlast.result = rprev.result
        /\ StoreUntouched
        /\ rprev.result \in Codes => ~rlast.matched
        /\ rprev.result = NotFound => rlast.matched

C3_Witness ==
    /\ SameNameTwice
    /\ rprev.matched
    /\ rprev.result \in Codes
    /\ rlast.hit
    /\ rlast.result = rprev.result

\* C3 as stated: two calls in a row with one source name that both return give
\* the same result, and the second does no approximate matching and does not
\* change the mapping store.
C3_Original ==
    (SameNameTwice /\ rprev.result # TypeError /\ rlast.result # TypeError) =>
        /\ rlast.result = rprev.result
        /\ ~rlast.matched
        /\ StoreUntouched

\* C4: a call that misses the mapping store, with best catalog score s: if
\* s > 80 it returns a code that carries a best-scoring name and the store, in
\* memory and on disk, becomes the store before plus {name -> code}; if
\* s <= 80 it returns None and the store is unchanged in memory and on disk.
C4_Threshold ==
    (rlast.op = "resolve" /\ ~rlast.hit /\ Len(scheme_codes) > 0) =>
        LET s == MaxScore(rlast.name, scheme_codes)
        IN IF s > 80
           THEN /\ \E i \in 1..Len(scheme_codes) :
                      /\ scheme_codes[i][1] = rlast.result
                      /\ Score(rlast.name, scheme_codes[i][2]) = s
                /\ mappings = [rlast.before EXCEPT ![rlast.name] = rlast.result]
                /\ mapping_file = [exists |-> TRUE, content |-> mappings]
           ELSE /\ rlast.result = NotFound
                /\ StoreUntouched

C4_Witness ==
    /\ rlast.op = "resolve"
    /\ ~rlast.hit
    /\ Len(scheme_codes) > 0
    /\ MaxScore(rlast.name, scheme_codes) = 80
    /\ rlast.result = NotFound
    /\ rlast.before = mappings

\* C6: every get_scheme_code call ends by returning a code or None, whatever
\* the catalog holds.
C6_NeverFaults ==
    rlast.op = "resolve" => rlast.result \in Codes \cup {NotFound}

\* C9: the mapping store only grows: a source name mapped to a code, in memory
\* or on disk, is mapped to the same code after every step, a new instance's
\* construction on a changed catalog included.
C9_StoreOnlyGrows ==
    [][\A n \in SourceNames :
          /\ mappings[n] # NoKey => mappings'[n] = mappings[n]
          /\ (mapping_file.exists /\ mapping_file.content[n] # NoKey) =>
                (mapping_file'.exists /\ mapping_file'.content[n] = mapping_file.content[n])
      ]_vars

\* A stored code is returned although the catalog no longer lists it.
C9_Witness ==
    /\ rlast.op = "resolve"
    /\ rlast.hit
    /\ Len(scheme_codes) > 0
    /\ \A i \in 1..Len(scheme_codes) : scheme_codes[i][1] # rlast.result
    /\ mapping_file.exists
    /\ mapping_file.content[rlast.name] = rlast.result

-----------------------------------------------------------------------------
(* Properties of the price-history cache, under SpecCache *)

\* The latest two calls are fetch_historical_nav calls of the live instance
\* with one scheme code on one day.
SameCodeTwice ==
    /\ glast.op = "get"
    /\ gprev.op = "get"
    /\ glast.id \in Codes
    /\ glast.id = gprev.id
    /\ glast.day = gprev.day

Calls(g) == IF g.called THEN 1 ELSE 0

\* The entry was written on that day.
FetchedOn(entry, day) == entry.present /\ entry.last_updated = day

\* The answers of the provider that C2 lists: it raised, returned nothing,
\* returned no data list, an empty one, or a point that cannot be parsed.
Unusable(resp) ==
    \/ resp.kind # "data"
    \/ resp.data = <<>>
    \/ \E i \in 1..Len(resp.data) : resp.data[i] \in {BadMonth, BadNav}

\* The step is the call fetch_historical_nav(c), the provider answering r if
\* asked and save_cache ending as o if reached.
IsFetch(c, r, o) ==
    /\ glast'.op = "get"
    /\ glast'.id = c
    /\ FetchHistoricalNav(c, r, o)

Ascending(points) ==
    \A i, j \in 1..Len(points) : i < j => points[i].date < points[j].date

\* C1 as amended: two calls in a row for one code on one day call the
\* provider once in total when the first call reaches the provider and builds
\* a series from its answer; not at all when the first call is served from
\* the cache; twice when the first call's fetch fails.
C1_SameDayTwice ==
    SameCodeTwice =>
        Calls(gprev) + Calls(glast) =
            IF ~gprev.called THEN 0 ELSE IF gprev.parsed THEN 1 ELSE 2

C1_Witness ==
    /\ SameCodeTwice
    /\ gprev.called
    /\ gprev.parsed
    /\ ~glast.called
    /\ ~glast.isNone

\* C1 as stated: two calls in a row for one code on one day call the provider
\* exactly once in total.
C1_Original ==
    SameCodeTwice => Calls(gprev) + Calls(glast) = 1

\* C2: a call that reaches the provider and gets an unusable answer returns
\* None and leaves the entry of its code as it was, in memory and on disk.
C2_FailedFetch ==
    [][\A c \in Codes, r \in Responses, o \in SaveOutcomes :
          \/ /\ glast'.isNone
             /\ cache'[c] = cache[c]
             /\ cache_file' = cache_file
          \/ ~(~FetchedOn(cache[c], today) /\ Unusable(r) /\ IsFetch(c, r, o))
      ]_vars

\* A failed fetch for a code with no entry: it is still absent, also on disk.
C2_Witness ==
    /\ glast.op = "get"
    /\ glast.called
    /\ ~glast.parsed
    /\ glast.isNone
    /\ ~cache[glast.id].present
    /\ ~LoadCache(cache_file)[glast.id].present

\* C5: every cached series and every returned series has strictly ascending
\* dates.
C5_SortedUnique ==
    /\ \A c \in Codes : cache[c].present => Ascending(FrameFromCache(cache[c].data))
    /\ Ascending(glast.result)

C10_OtherEntries ==
    [][\A c \in Codes, r \in Responses, o \in SaveOutcomes :
          \/ \A d \in Codes \ {c} :
                /\ cache'[d] = cache[d]
                /\ LoadCache(cache_file')[d] = LoadCache(cache_file)[d]
          \/ ~(~FetchedOn(cache[c], today) /\ ~Unusable(r) /\ IsFetch(c, r, o))
      ]_vars

-----------------------------------------------------------------------------
(* Properties of the transaction extractor, under SpecExtractor *)

\* No row of the sheet has both a scheme name and a parseable date.
NoRowSurvives(wb) ==
    \A i \in 1..Len(wb.rows) :
        wb.rows[i].scheme = NaN \/ wb.rows[i].date = BadDateRow.date

\* C7: load_data returns None when the sheet is absent and when no row
\* survives validation, and a transaction set only when a row survives.
C7_LoadError ==
    load_result.called =>
        /\ ~file_path.hasSheet => load_result.value.isNone
        /\ (file_path.hasSheet /\ NoRowSurvives(file_path)) => load_result.value.isNone
        /\ ~load_result.value.isNone => ~NoRowSurvives(file_path)

====
